---- MODULE Spec2Model ----
(***************************************************************************)
(* Model of Chapter 03/draw3d.py: the five drawable classes, the generator *)
(* extract_vectors_3D and the function draw3d.                             *)
(*                                                                         *)
(* One behaviour of the model is one call of draw3d.  The positional and   *)
(* keyword arguments are fixed by Init; every action is one numbered step  *)
(* of the body (or one iteration of one of its two loops over objects).    *)
(* The matplotlib axes are modelled by what the calls leave behind: the    *)
(* axis limits and ticks in force (ax), the artists added (artists) and    *)
(* the images produced by savefig / show (output).                         *)
(*                                                                         *)
(* Lengths are integers counting 1/Scale of a unit, so that the 5% padding *)
(* of a whole number of units is exact.                                    *)
(*                                                                         *)
(* Left out, as they change none of the above: figure creation and width,  *)
(* view_init (azim, elev), the axis labels and depthshade.  Coordinates    *)
(* are whole numbers of units; floating-point rounding is not modelled.    *)
(***************************************************************************)
EXTENDS Integers, Sequences, FiniteSets

VARIABLES
    objects,        \* the positional arguments of draw3d
    kw,             \* the keyword arguments of draw3d
    pc,             \* the step of draw3d that runs next
    i,              \* index of the object the running loop is at
    extracted,      \* what extract_vectors_3D has yielded so far
    all_vectors,    \* the list all_vectors of draw3d
    plot_x_range,   \* the locals plot_x_range, plot_y_range, plot_z_range
    plot_y_range,
    plot_z_range,
    ax,             \* limits and ticks in force on the 3D axes
    artists,        \* ax.plot / ax.scatter / ax.quiver calls made, in order
    output,         \* images produced by plt.savefig and plt.show, in order
    raised,         \* the exception that ended the call, if any
    log             \* the steps that have taken effect, in order

vars == <<objects, kw, pc, i, extracted, all_vectors, plot_x_range,
          plot_y_range, plot_z_range, ax, artists, output, raised, log>>

-----------------------------------------------------------------------------
(* Bounds of the model *)

MaxObjs == 2
MaxVerts == 3
MaxCoord == 3

-----------------------------------------------------------------------------
(* Numbers of the program *)

PadPercent == 5
UnitPadding == 1
MinHalfSpan == 2

Scale == 100 \div PadPercent

None == <<>>

Vec(x, y, z) == <<x * Scale, y * Scale, z * Scale>>

-----------------------------------------------------------------------------
(* The classes *)

Polygon3D(vertices, color) ==
    [type |-> "Polygon3D", vertices |-> vertices, color |-> color]

Points3D(vectors, color) ==
    [type |-> "Points3D", vectors |-> vectors, color |-> color]

Arrow3D(tip, tail, color) ==
    [type |-> "Arrow3D", tip |-> tip, tail |-> tail, color |-> color]

Segment3D(start_point, end_point, color, linestyle) ==
    [type |-> "Segment3D", start_point |-> start_point,
     end_point |-> end_point, color |-> color, linestyle |-> linestyle]

Box3D(vector) == [type |-> "Box3D", vector |-> vector]

\* Any value that is an instance of none of the five classes.
Unrecognized(k) == [type |-> "str", value |-> k]

-----------------------------------------------------------------------------
(* extract_vectors_3D *)

isinstance(obj, cls) == obj.type = cls

Recognized(obj) ==
    \/ isinstance(obj, "Polygon3D")
    \/ isinstance(obj, "Points3D")
    \/ isinstance(obj, "Arrow3D")
    \/ isinstance(obj, "Segment3D")
    \/ isinstance(obj, "Box3D")

NoError == [type |-> "None"]

\* Mutant of TypeError: the wrong exception class is raised.
TypeError_asValueError(obj) == [type |-> "ValueError", obj |-> obj]

TypeError(obj) == [type |-> "TypeError", obj |-> obj]

ValueError(line) == [type |-> "ValueError", line |-> line]

\* Mutant of Yields: an arrow's tail is yielded before its tip.
Yields_tailFirst(obj) ==
    IF isinstance(obj, "Polygon3D") THEN obj.vertices
    ELSE IF isinstance(obj, "Points3D") THEN obj.vectors
    ELSE IF isinstance(obj, "Arrow3D") THEN <<obj.tail, obj.tip>>
    ELSE IF isinstance(obj, "Segment3D") THEN <<obj.start_point, obj.end_point>>
    ELSE <<obj.vector>>

\* What one iteration of the generator's loop yields for a recognized obj.
Yields(obj) ==
    IF isinstance(obj, "Polygon3D") THEN obj.vertices
    ELSE IF isinstance(obj, "Points3D") THEN obj.vectors
    ELSE IF isinstance(obj, "Arrow3D") THEN <<obj.tip, obj.tail>>
    ELSE IF isinstance(obj, "Segment3D") THEN <<obj.start_point, obj.end_point>>
    ELSE <<obj.vector>>

-----------------------------------------------------------------------------
(* Bounds computation, steps 4 and 5 of draw3d *)

Column(vectors, k) == [n \in 1..Len(vectors) |-> vectors[n][k]]

RECURSIVE max0(_)
max0(cs) ==
    IF cs = <<>> THEN 0
    ELSE LET m == max0(Tail(cs)) IN IF Head(cs) > m THEN Head(cs) ELSE m

RECURSIVE min0(_)
min0(cs) ==
    IF cs = <<>> THEN 0
    ELSE LET m == min0(Tail(cs)) IN IF Head(cs) < m THEN Head(cs) ELSE m

\* Mutant of padding: 10% instead of 5%.
padding_tenPercent(size) ==
    IF size # 0 THEN (2 * PadPercent * size) \div 100 ELSE UnitPadding * Scale

padding(size) ==
    IF size # 0 THEN (PadPercent * size) \div 100 ELSE UnitPadding * Scale

lower(a, b) == IF a < b THEN a ELSE b

upper(a, b) == IF a > b THEN a ELSE b

\* Mutant of plot_range: the range is not widened to at least [-2, 2].
plot_range_unclamped(cs) ==
    LET max_c == max0(cs)
        min_c == min0(cs)
        pad == padding(max_c - min_c)
    IN  <<min_c - pad, max_c + pad>>

\* Mutant of plot_range: the padding is left out.
plot_range_tight(cs) ==
    <<lower(min0(cs), -MinHalfSpan * Scale), upper(max0(cs), MinHalfSpan * Scale)>>

plot_range(cs) ==
    LET max_c == max0(cs)
        min_c == min0(cs)
        size == max_c - min_c
        pad == padding(size)
    IN  <<lower(min_c - pad, -MinHalfSpan * Scale),
          upper(max_c + pad, MinHalfSpan * Scale)>>

-----------------------------------------------------------------------------
(* Drawing *)

Line(p1, p2, color, linestyle) ==
    [call |-> "plot", pts |-> <<p1, p2>>, color |-> color,
     linestyle |-> linestyle]

\* _draw_axis_line with its defaults color=black, linestyle='solid'
AxisLine(p1, p2) == Line(p1, p2, "black", "solid")

Scatter(pts, color, marker) ==
    [call |-> "scatter", pts |-> pts, color |-> color, marker |-> marker]

Quiver(tail, delta, color) ==
    [call |-> "quiver", pts |-> <<tail, delta>>, color |-> color]

AxesLines(xr, yr, zr) ==
    << AxisLine(<<xr[1], 0, 0>>, <<xr[2], 0, 0>>),
       AxisLine(<<0, yr[1], 0>>, <<0, yr[2], 0>>),
       AxisLine(<<0, 0, zr[1]>>, <<0, 0, zr[2]>> ) >>

OriginMarker == Scatter(<<<<0, 0, 0>>>>, "k", "x")

\* Mutant of PolygonEdges: the edge from the last vertex back to the first
\* is left out.
PolygonEdges_open(obj) ==
    LET N == Len(obj.vertices)
    IN  [e \in 1..(IF N = 0 THEN 0 ELSE N - 1) |->
            Line(obj.vertices[e], obj.vertices[e + 1], obj.color, "solid")]

PolygonEdges(obj) ==
    LET N == Len(obj.vertices)
    IN  [e \in 1..N |->
            Line(obj.vertices[e], obj.vertices[(e % N) + 1], obj.color, "solid")]

BoxEdges(obj) ==
    LET x == obj.vector[1]
        y == obj.vector[2]
        z == obj.vector[3]
        E(p1, p2) == Line(p1, p2, "gray", "dashed")
    IN  << E(<<0, y, 0>>, <<x, y, 0>>),
           E(<<0, 0, z>>, <<0, y, z>>),
           E(<<0, 0, z>>, <<x, 0, z>>),
           E(<<0, y, 0>>, <<0, y, z>>),
           E(<<x, 0, 0>>, <<x, y, 0>>),
           E(<<x, 0, 0>>, <<x, 0, z>>),
           E(<<0, y, z>>, <<x, y, z>>),
           E(<<x, 0, z>>, <<x, y, z>>),
           E(<<x, y, 0>>, <<x, y, z>>) >>

Minus(p, q) == <<p[1] - q[1], p[2] - q[2], p[3] - q[3]>>

\* One iteration of the drawing loop: the exception it raises (NoError if
\* none) and the artists it adds.
Render(obj) ==
    IF isinstance(obj, "Points3D") THEN
        IF obj.vectors = <<>>
        THEN [error |-> ValueError(167), drawn |-> <<>>]
        ELSE [error |-> NoError,
              drawn |-> <<Scatter(obj.vectors, obj.color, "o")>>]
    ELSE IF isinstance(obj, "Polygon3D") THEN
        [error |-> NoError, drawn |-> PolygonEdges(obj)]
    ELSE IF isinstance(obj, "Arrow3D") THEN
        [error |-> NoError,
         drawn |-> <<Quiver(obj.tail, Minus(obj.tip, obj.tail), obj.color)>>]
    ELSE IF isinstance(obj, "Segment3D") THEN
        [error |-> NoError,
         drawn |-> <<Line(obj.start_point, obj.end_point, obj.color,
                          obj.linestyle)>>]
    ELSE IF isinstance(obj, "Box3D") THEN
        [error |-> NoError, drawn |-> BoxEdges(obj)]
    ELSE [error |-> TypeError(obj), drawn |-> <<>>]

-----------------------------------------------------------------------------
(* Order of the steps of draw3d *)

\* Mutant of StepAfter: the figure is shown before it is saved.
StepAfter_showBeforeSave(step) ==
    CASE step = "extract" -> "bounds"
      [] step = "bounds"  -> "axes"
      [] step = "axes"    -> "origin"
      [] step = "origin"  -> "draw"
      [] step = "draw"    -> "limits"
      [] step = "limits"  -> "ticks"
      [] step = "ticks"   -> "show"
      [] step = "show"    -> "save"
      [] step = "save"    -> "done"

StepAfter(step) ==
    CASE step = "extract" -> "bounds"
      [] step = "bounds"  -> "axes"
      [] step = "axes"    -> "origin"
      [] step = "origin"  -> "draw"
      [] step = "draw"    -> "limits"
      [] step = "limits"  -> "ticks"
      [] step = "ticks"   -> "save"
      [] step = "save"    -> "show"
      [] step = "show"    -> "done"

AllGiven(a, b, c) == a # None /\ b # None /\ c # None

-----------------------------------------------------------------------------
(* The calls considered *)

SeqsUpTo(S, n) == UNION {[1..k -> S] : k \in 0..n}

Grid == {-MaxCoord, -1, 0, MaxCoord}

GridVecs == {Vec(x, y, z) : x \in Grid, y \in Grid, z \in Grid}

va == Vec(1, -1, 0)
vb == Vec(MaxCoord, 0, -MaxCoord)
vc == Vec(-MaxCoord, MaxCoord, 1)

SampleVecs == {va, vb, vc}

Colors == {"blue", "red"}

\* Every object of every class over the vectors above, and two values that
\* are objects of no class.
SingleObjects ==
    {Polygon3D(vs, c) : vs \in SeqsUpTo(SampleVecs, MaxVerts), c \in Colors}
    \cup {Points3D(vs, "black") : vs \in SeqsUpTo(SampleVecs, MaxVerts)}
    \cup {Arrow3D(t, u, "red") : t \in GridVecs, u \in GridVecs}
    \cup {Segment3D(t, u, "blue", ls) :
             t \in SampleVecs, u \in SampleVecs, ls \in {"solid", "dashed"}}
    \cup {Box3D(v) : v \in GridVecs}
    \cup {Unrecognized(1), Unrecognized(2)}

\* A few objects of each kind, to build scenes of several objects from.
SceneObjects ==
    { Polygon3D(<<va, vb, vc>>, "blue"), Polygon3D(<<>>, "blue"),
      Points3D(<<vc>>, "black"), Points3D(<<>>, "black"),
      Arrow3D(va, Vec(0, 0, 0), "red"),
      Segment3D(vb, vc, "blue", "solid"),
      Box3D(vc),
      Unrecognized(1), Unrecognized(2) }

Defaults ==
    [origin |-> TRUE, axes |-> TRUE, save_as |-> "",
     xlim |-> None, ylim |-> None, zlim |-> None,
     xticks |-> None, yticks |-> None, zticks |-> None]

\* origin and axes chosen, everything else left at its default
PlainKw ==
    {[Defaults EXCEPT !.origin = o, !.axes = a] : o \in BOOLEAN, a \in BOOLEAN}

\* every combination of given and omitted keyword arguments
AllKw ==
    [origin : BOOLEAN, axes : BOOLEAN, save_as : {"", "fig.png"},
     xlim : {None, <<-5 * Scale, 5 * Scale>>},
     ylim : {None, <<-4 * Scale, 4 * Scale>>},
     zlim : {None, <<0, 6 * Scale>>},
     xticks : {None, <<-Scale, 0, Scale>>},
     yticks : {None, <<0, Scale>>},
     zticks : {None, <<0, 2 * Scale>>}]

Start ==
    /\ pc = "extract"
    /\ i = 1
    /\ extracted = <<>>
    /\ all_vectors = <<>>
    /\ plot_x_range = None
    /\ plot_y_range = None
    /\ plot_z_range = None
    /\ ax = [xlim |-> None, ylim |-> None, zlim |-> None,
             xticks |-> None, yticks |-> None, zticks |-> None]
    /\ artists = <<>>
    /\ output = <<>>
    /\ raised = NoError
    /\ log = <<>>

Init ==
    /\ \/ objects \in SeqsUpTo(SingleObjects, 1) /\ kw \in PlainKw
       \/ objects \in SeqsUpTo(SceneObjects, MaxObjs) /\ kw \in PlainKw
       \/ objects \in SeqsUpTo(SceneObjects, 1) /\ kw \in AllKw
    /\ Start

-----------------------------------------------------------------------------
(* The steps of draw3d *)

Raise(e) ==
    /\ raised' = e
    /\ pc' = "raised"

\* artists added by the loop iteration for object k (0: by draw3d itself)
By(drawn, k) == [n \in 1..Len(drawn) |-> [art |-> drawn[n], of |-> k]]

\* The loop over objects is entered only if there is an object.
Enter(step) ==
    IF step = "draw" /\ objects = <<>> THEN StepAfter(step) ELSE step

\* Step 3, one iteration of the generator that list(...) drives.
ExtractNext ==
    /\ pc = "extract"
    /\ i <= Len(objects)
    /\ IF Recognized(objects[i])
       THEN /\ extracted' = extracted \o Yields(objects[i])
            /\ i' = i + 1
            /\ log' = Append(log, "extract")
            /\ UNCHANGED <<pc, raised>>
       ELSE /\ Raise(TypeError(objects[i]))
            /\ UNCHANGED <<extracted, i, log>>
    /\ UNCHANGED <<objects, kw, all_vectors, plot_x_range, plot_y_range,
                   plot_z_range, ax, artists, output>>

\* Step 3, after the generator is exhausted: the origin is appended and the
\* list is unzipped into xs, ys, zs.
Collect ==
    /\ pc = "extract"
    /\ i > Len(objects)
    /\ all_vectors' = IF kw.origin THEN Append(extracted, Vec(0, 0, 0))
                                   ELSE extracted
    /\ IF all_vectors' = <<>>
       THEN Raise(ValueError(116))
       ELSE pc' = StepAfter("extract") /\ UNCHANGED raised
    /\ UNCHANGED <<objects, kw, i, extracted, plot_x_range, plot_y_range,
                   plot_z_range, ax, artists, output, log>>

\* Steps 4 and 5.
SetBounds ==
    /\ pc = "bounds"
    /\ plot_x_range' = plot_range(Column(all_vectors, 1))
    /\ plot_y_range' = plot_range(Column(all_vectors, 2))
    /\ plot_z_range' = plot_range(Column(all_vectors, 3))
    /\ ax' = [ax EXCEPT !.xlim = plot_x_range', !.ylim = plot_y_range',
                        !.zlim = plot_z_range']
    /\ log' = Append(log, "bounds")
    /\ pc' = StepAfter("bounds")
    /\ UNCHANGED <<objects, kw, i, extracted, all_vectors, artists, output,
                   raised>>

\* Step 6.
DrawAxes ==
    /\ pc = "axes"
    /\ IF kw.axes
       THEN /\ artists' = artists \o
                    By(AxesLines(plot_x_range, plot_y_range, plot_z_range), 0)
            /\ log' = Append(log, "axes")
       ELSE UNCHANGED <<artists, log>>
    /\ pc' = StepAfter("axes")
    /\ UNCHANGED <<objects, kw, i, extracted, all_vectors, plot_x_range,
                   plot_y_range, plot_z_range, ax, output, raised>>

\* Step 7.
MarkOrigin ==
    /\ pc = "origin"
    /\ IF kw.origin
       THEN /\ artists' = artists \o By(<<OriginMarker>>, 0)
            /\ log' = Append(log, "origin")
       ELSE UNCHANGED <<artists, log>>
    /\ pc' = Enter(StepAfter("origin"))
    /\ i' = 1
    /\ UNCHANGED <<objects, kw, extracted, all_vectors, plot_x_range,
                   plot_y_range, plot_z_range, ax, output, raised>>

\* Step 8, one iteration of the loop.
DrawObject ==
    /\ pc = "draw"
    /\ i <= Len(objects)
    /\ LET r == Render(objects[i])
       IN  IF r.error = NoError
           THEN /\ artists' = artists \o By(r.drawn, i)
                /\ log' = Append(log, "draw")
                /\ i' = i + 1
                /\ pc' = IF i = Len(objects) THEN StepAfter("draw") ELSE "draw"
                /\ UNCHANGED raised
           ELSE /\ Raise(r.error)
                /\ UNCHANGED <<artists, log, i>>
    /\ UNCHANGED <<objects, kw, extracted, all_vectors, plot_x_range,
                   plot_y_range, plot_z_range, ax, output>>

\* Step 9.
OverrideLimits ==
    /\ pc = "limits"
    /\ IF AllGiven(kw.xlim, kw.ylim, kw.zlim)
       THEN /\ ax' = [ax EXCEPT !.xlim = kw.xlim, !.ylim = kw.ylim,
                                !.zlim = kw.zlim]
            /\ log' = Append(log, "limits")
       ELSE UNCHANGED <<ax, log>>
    /\ pc' = StepAfter("limits")
    /\ UNCHANGED <<objects, kw, i, extracted, all_vectors, plot_x_range,
                   plot_y_range, plot_z_range, artists, output, raised>>

\* Step 10.
OverrideTicks ==
    /\ pc = "ticks"
    /\ IF AllGiven(kw.xticks, kw.yticks, kw.zticks)
       THEN /\ ax' = [ax EXCEPT !.xticks = kw.xticks, !.yticks = kw.yticks,
                                !.zticks = kw.zticks]
            /\ log' = Append(log, "ticks")
       ELSE UNCHANGED <<ax, log>>
    /\ pc' = StepAfter("ticks")
    /\ UNCHANGED <<objects, kw, i, extracted, all_vectors, plot_x_range,
                   plot_y_range, plot_z_range, artists, output, raised>>

\* The figure as it is rendered to `to`.
Image(to) == [to |-> to, ax |-> ax, artists |-> artists]

\* Step 11.
Save ==
    /\ pc = "save"
    /\ IF kw.save_as # ""
       THEN /\ output' = Append(output, Image(kw.save_as))
            /\ log' = Append(log, "save")
       ELSE UNCHANGED <<output, log>>
    /\ pc' = StepAfter("save")
    /\ UNCHANGED <<objects, kw, i, extracted, all_vectors, plot_x_range,
                   plot_y_range, plot_z_range, ax, artists, raised>>

\* Step 12.
Show ==
    /\ pc = "show"
    /\ output' = Append(output, Image("screen"))
    /\ log' = Append(log, "show")
    /\ pc' = StepAfter("show")
    /\ UNCHANGED <<objects, kw, i, extracted, all_vectors, plot_x_range,
                   plot_y_range, plot_z_range, ax, artists, raised>>

Next ==
    \/ ExtractNext
    \/ Collect
    \/ SetBounds
    \/ DrawAxes
    \/ MarkOrigin
    \/ DrawObject
    \/ OverrideLimits
    \/ OverrideTicks
    \/ Save
    \/ Show

Spec == Init /\ [][Next]_vars

-----------------------------------------------------------------------------
(* Vocabulary of the properties *)

Bad == {k \in 1..Len(objects) : ~Recognized(objects[k])}

AllRecognized == Bad = {}

FirstBad == CHOOSE k \in Bad : \A m \in Bad : k <= m

Count(tag) == Cardinality({n \in 1..Len(log) : log[n] = tag})

\* object k has been through the drawing loop
Drawn(k) == k \in 1..Len(objects) /\ Count("draw") >= k

ArtistsOf(k) ==
    LET mine(a) == a.of = k
        sel == SelectSeq(artists, mine)
    IN  [n \in 1..Len(sel) |-> sel[n].art]

BoundsSet == plot_x_range # None

IsPrefix(s, t) == Len(s) <= Len(t) /\ SubSeq(t, 1, Len(s)) = s

SetMin(S) == CHOOSE a \in S : \A b \in S : a <= b

SetMax(S) == CHOOSE a \in S : \A b \in S : a >= b

-----------------------------------------------------------------------------
(* C1 *)

Corners(v) == {<<a, b, c>> : a \in {0, v[1]}, b \in {0, v[2]}, c \in {0, v[3]}}

DifferIn(p, q) == {n \in 1..3 : p[n] # q[n]}

\* the edges of the box from the origin to v: pairs of corners that differ
\* along exactly one axis
EdgesOfBox(v) ==
    {{p, q} : <<p, q>> \in
        {e \in Corners(v) \X Corners(v) : Cardinality(DifferIn(e[1], e[2])) = 1}}

Degree(p, lines) ==
    Cardinality({n \in 1..Len(lines) : p \in {lines[n].pts[1], lines[n].pts[2]}})

\* C1: every Box3D(x, y, z) that has been drawn contributed exactly 12 line
\* segments, all dashed and gray, which are the 12 edges of the box with
\* corners {0,x} x {0,y} x {0,z}; every corner is an endpoint of three.
C1_BoxHasTwelveEdges ==
    \A k \in 1..Len(objects) :
        (Drawn(k) /\ isinstance(objects[k], "Box3D")) =>
            LET lines == ArtistsOf(k)
                v == objects[k].vector
            IN  /\ Len(lines) = 12
                /\ \A n \in 1..Len(lines) :
                       /\ lines[n].call = "plot"
                       /\ lines[n].linestyle = "dashed"
                       /\ lines[n].color = "gray"
                /\ {{lines[n].pts[1], lines[n].pts[2]} : n \in 1..Len(lines)}
                       = EdgesOfBox(v)
                /\ (Cardinality(Corners(v)) = 8 =>
                       \A p \in Corners(v) : Degree(p, lines) = 3)

-----------------------------------------------------------------------------
(* C2 *)

Spans(r) == r[1] <= -MinHalfSpan * Scale /\ r[2] >= MinHalfSpan * Scale

\* C2: whenever the bounds have been computed, the plot range of each of
\* the x, y and z axes is (lo, hi) with lo <= -2 and hi >= 2.
C2_RangeSpansMinusTwoToTwo ==
    BoundsSet =>
        Spans(plot_x_range) /\ Spans(plot_y_range) /\ Spans(plot_z_range)

\* bounds computed without the origin, from an arrow that reaches beyond 2
\* on x and stays within it on y
C2_Witness ==
    /\ pc = "axes"
    /\ ~kw.origin
    /\ Len(objects) = 1
    /\ isinstance(objects[1], "Arrow3D")
    /\ plot_x_range[2] > MinHalfSpan * Scale
    /\ plot_x_range[1] = -MinHalfSpan * Scale
    /\ plot_y_range = <<-MinHalfSpan * Scale, MinHalfSpan * Scale>>
    /\ plot_z_range[1] < -MinHalfSpan * Scale

-----------------------------------------------------------------------------
(* C3 *)

\* C3: a call whose objects are all of the five recognized types raises no
\* error, whatever the keyword arguments.
C3_RecognizedNeverRaises ==
    AllRecognized => raised = NoError

-----------------------------------------------------------------------------
(* C4 *)

\* C4: if some object is of none of the five types, the call gets no
\* further than the extraction, the only error it can end in is a TypeError
\* carrying the first such object, and the extraction does reach that
\* object.
C4_TypeErrorForFirstUnrecognized ==
    ~AllRecognized =>
        /\ pc \in {"extract", "raised"}
        /\ pc = "extract" => (raised = NoError /\ i <= FirstBad)
        /\ pc = "raised" =>
              (raised.type = "TypeError" /\ raised.obj = objects[FirstBad])
        /\ artists = <<>> /\ output = <<>>

\* two different unrecognized objects, and the error names the first
C4_Witness ==
    /\ Len(objects) = 2
    /\ Bad = {1, 2}
    /\ objects[1] # objects[2]
    /\ pc = "raised"
    /\ raised.type = "TypeError"
    /\ raised.obj = objects[1]

-----------------------------------------------------------------------------
(* C5 *)

\* the coordinates each kind of object is documented to contribute
Documented(obj) ==
    CASE obj.type = "Polygon3D" -> obj.vertices
      [] obj.type = "Points3D"  -> obj.vectors
      [] obj.type = "Arrow3D"   -> <<obj.tip>> \o <<obj.tail>>
      [] obj.type = "Segment3D" -> <<obj.start_point>> \o <<obj.end_point>>
      [] obj.type = "Box3D"     -> <<obj.vector>>

HowMany(obj) ==
    CASE obj.type = "Polygon3D" -> Len(obj.vertices)
      [] obj.type = "Points3D"  -> Len(obj.vectors)
      [] obj.type = "Arrow3D"   -> 2
      [] obj.type = "Segment3D" -> 2
      [] obj.type = "Box3D"     -> 1

RECURSIVE Flatten(_)
Flatten(objs) ==
    IF objs = <<>> THEN <<>>
    ELSE Documented(Head(objs)) \o Flatten(Tail(objs))

RECURSIVE Total(_)
Total(objs) ==
    IF objs = <<>> THEN 0 ELSE HowMany(Head(objs)) + Total(Tail(objs))

ExtractionOver == pc # "extract" \/ i > Len(objects)

\* C5: for a sequence of recognized objects the generator has, at any
\* moment, yielded exactly the documented coordinates of the objects it has
\* passed, in object order, and once exhausted those of all the objects;
\* their number is the sum of the per-object counts.
C5_ExtractionIsConcatenation ==
    AllRecognized =>
        /\ Count("extract") <= Len(objects)
        /\ extracted = Flatten(SubSeq(objects, 1, Count("extract")))
        /\ ExtractionOver =>
              /\ extracted = Flatten(objects)
              /\ Len(extracted) = Total(objects)

\* an arrow followed by a three-vertex polygon, fully extracted
C5_Witness ==
    /\ pc = "bounds"
    /\ Len(objects) = 2
    /\ isinstance(objects[1], "Arrow3D")
    /\ objects[1].tip # objects[1].tail
    /\ isinstance(objects[2], "Polygon3D")
    /\ Len(objects[2].vertices) = 3
    /\ Len(extracted) = 5

-----------------------------------------------------------------------------
(* C6 *)

\* C6: in every image saved or shown, the x range is xlim if xlim was given,
\* the y range is ylim if ylim was given and the z range is zlim if zlim was
\* given, each independently of the other two.
C6_EachLimitEnforced ==
    \A n \in 1..Len(output) :
        /\ kw.xlim # None => output[n].ax.xlim = kw.xlim
        /\ kw.ylim # None => output[n].ax.ylim = kw.ylim
        /\ kw.zlim # None => output[n].ax.zlim = kw.zlim

-----------------------------------------------------------------------------
(* C7 *)

\* the coordinates on axis n that enter the bounds
AxisCoords(n) ==
    {extracted[m][n] : m \in 1..Len(extracted)}
        \cup (IF kw.origin THEN {0} ELSE {})

ClaimedRange(n) ==
    LET lo == SetMin(AxisCoords(n) \cup {0})
        hi == SetMax(AxisCoords(n) \cup {0})
        size == hi - lo
        pad == IF size = 0 THEN Scale ELSE size \div 20
    IN  << SetMin({lo - pad, -2 * Scale}), SetMax({hi + pad, 2 * Scale}) >>

\* C7: on each axis the computed range is
\* (min(lo - pad, -2), max(hi + pad, 2)), lo and hi the least and greatest of
\* 0 and the coordinates, pad 5% of hi - lo, or 1 when hi = lo.
C7_RangeFormula ==
    BoundsSet =>
        /\ plot_x_range = ClaimedRange(1)
        /\ plot_y_range = ClaimedRange(2)
        /\ plot_z_range = ClaimedRange(3)

\* one axis of zero extent (unit padding), one padded beyond 2 on both
\* sides, one padded on one side only
C7_Witness ==
    /\ BoundsSet
    /\ AxisCoords(1) \cup {0} = {0}
    /\ plot_x_range = <<-2 * Scale, 2 * Scale>>
    /\ SetMin(AxisCoords(2)) = -MaxCoord * Scale
    /\ SetMax(AxisCoords(2)) = MaxCoord * Scale
    /\ plot_y_range[1] < -MaxCoord * Scale
    /\ plot_y_range[2] > MaxCoord * Scale
    /\ plot_z_range[1] = -2 * Scale
    /\ plot_z_range[2] > MaxCoord * Scale

-----------------------------------------------------------------------------
(* C8 *)

Inside(p) ==
    /\ plot_x_range[1] < p[1] /\ p[1] < plot_x_range[2]
    /\ plot_y_range[1] < p[2] /\ p[2] < plot_y_range[2]
    /\ plot_z_range[1] < p[3] /\ p[3] < plot_z_range[2]

\* C8: once the bounds are computed, every extracted vector and every one
\* of the 8 corners of every box lies strictly inside the range of each
\* axis.
C8_RangeCoversEverything ==
    BoundsSet =>
        /\ \A m \in 1..Len(extracted) : Inside(extracted[m])
        /\ \A k \in 1..Len(objects) :
               isinstance(objects[k], "Box3D") =>
                   \A p \in Corners(objects[k].vector) : Inside(p)

\* a box whose far corner lies beyond 2 on every axis
C8_Witness ==
    /\ BoundsSet
    /\ Len(objects) = 1
    /\ isinstance(objects[1], "Box3D")
    /\ objects[1].vector = Vec(MaxCoord, -MaxCoord, MaxCoord)
    /\ Cardinality(Corners(objects[1].vector)) = 8

-----------------------------------------------------------------------------
(* C9 *)

\* C9: every Polygon3D with N vertices that has been drawn contributed
\* exactly N line segments in its color, the e-th from vertex e to the
\* vertex after it, the last one back to the first; none when N = 0.
C9_PolygonIsClosedLoop ==
    \A k \in 1..Len(objects) :
        (Drawn(k) /\ isinstance(objects[k], "Polygon3D")) =>
            LET lines == ArtistsOf(k)
                vs == objects[k].vertices
                N == Len(vs)
            IN  /\ Len(lines) = N
                /\ \A e \in 1..N :
                       /\ lines[e].call = "plot"
                       /\ lines[e].color = objects[k].color
                       /\ lines[e].pts[1] = vs[e]
                       /\ lines[e].pts[2] = (IF e = N THEN vs[1] ELSE vs[e + 1])

\* a red triangle with three different vertices, drawn
C9_Witness ==
    /\ Len(objects) = 1
    /\ Drawn(1)
    /\ isinstance(objects[1], "Polygon3D")
    /\ objects[1].color = "red"
    /\ Len(objects[1].vertices) = 3
    /\ Cardinality({objects[1].vertices[n] : n \in 1..3}) = 3

-----------------------------------------------------------------------------
(* C10 *)

Rep(tag, n) == [k \in 1..n |-> tag]

Opt(cond, tag) == IF cond THEN <<tag>> ELSE <<>>

\* the steps of a complete run, in the claimed order
ClaimedOrder ==
    Rep("extract", Len(objects))
        \o <<"bounds">>
        \o Opt(kw.axes, "axes")
        \o Opt(kw.origin, "origin")
        \o Rep("draw", Len(objects))
        \o Opt(kw.xlim # None /\ kw.ylim # None /\ kw.zlim # None, "limits")
        \o Opt(kw.xticks # None /\ kw.yticks # None /\ kw.zticks # None, "ticks")
        \o Opt(kw.save_as # "", "save")
        \o <<"show">>

\* C10: the steps that have taken effect are always an initial part of:
\* extraction of every object, bounds, axis lines (if axes), origin marker
\* (if origin), the objects in order, limit overrides, tick overrides, save
\* (if save_as), show; a run that returns has taken all of them.  So nothing
\* is drawn before every object is extracted and no save follows the show.
C10_StepsInOrder ==
    /\ IsPrefix(log, ClaimedOrder)
    /\ pc = "done" => log = ClaimedOrder
    /\ artists # <<>> => Count("extract") = Len(objects)
    /\ \A m, n \in 1..Len(log) : (log[m] = "show" /\ log[n] = "save") => n < m

\* a finished run that took every optional step
C10_Witness ==
    /\ pc = "done"
    /\ Len(objects) = 1
    /\ kw.axes /\ kw.origin /\ kw.save_as # ""
    /\ Len(log) = 9
    /\ Len(output) = 2

====
